---- MODULE Spec2Model ----
(***************************************************************************)
(* VoltAI: TF index build (index_dir) and Ollama-first query               *)
(* (query_with_ollama) of src/src/main.rs.                                 *)
(*                                                                         *)
(* Text is a sequence of one-character strings.  f32 values are fixed      *)
(* point integers scaled by Scale.  A HashMap is a function; the order in  *)
(* which it is iterated is an arbitrary permutation of its keys.           *)
(***************************************************************************)
EXTENDS Integers, Sequences, FiniteSets, TLC

\* ------------------------------------------------------------------ bounds
\* Number of allow-listed candidate files of a small directory.
MaxFiles == 2
\* A large directory holds MAX_CONTEXT_DOCS + 1 .. MAX_CONTEXT_DOCS + ExtraDocs files.
ExtraDocs == 1
MaxTextLen == 3

\* ------------------------------------------------------- program constants
\* selected_docs.iter().take(10)
MAX_CONTEXT_DOCS == 10
\* q_toks.len() < 3
MIN_SPECIFIC_TOKENS == 3
\* kv.into_iter().take(8) in the prompt context
PROMPT_KEYWORDS == 8
\* kv.into_iter().take(6) in the fallback
FALLBACK_KEYWORDS == 6
\* if tk.len() <= 2 { continue; }
MAX_SHORT_TOKEN == 2

\* Fixed point unit of the f32 values.
Scale == 10 * 10 * 10
\* Fraction bits computed by Log2Fix.
LogBits == 5 + 5

\* ----------------------------------------------------------------- helpers
Range(s) == {s[i] : i \in DOMAIN s}

Min(a, b) == IF a < b THEN a ELSE b

Take(s, n) == SubSeq(s, 1, Min(n, Len(s)))

Perms(S) == {p \in [1..Cardinality(S) -> S] : \A i, j \in DOMAIN p : i # j => p[i] # p[j]}

RECURSIVE SeqProduct(_)
\* All sequences that pick one element of each set of a sequence of sets.
SeqProduct(sets) ==
    IF sets = <<>> THEN {<<>>}
    ELSE {<<h>> \o t : h \in Head(sets), t \in SeqProduct(Tail(sets))}

RECURSIVE SumSeq(_)
SumSeq(s) == IF s = <<>> THEN 0 ELSE Head(s) + SumSeq(Tail(s))

RECURSIVE ISqrtIn(_, _, _)
\* The largest r in lo..hi with r * r <= n, by bisection.
ISqrtIn(n, lo, hi) ==
    IF lo >= hi THEN lo
    ELSE LET mid == (lo + hi + 1) \div 2
         IN  IF mid * mid <= n THEN ISqrtIn(n, mid, hi) ELSE ISqrtIn(n, lo, mid - 1)

\* f32::sqrt on a value scaled by Scale * Scale: the result is scaled by Scale.
\* (46340 is the largest root whose square fits TLC's 32-bit integers.)
ISqrt(n) == ISqrtIn(n, 0, Min(n, 46340))

RECURSIVE Log2Frac(_, _, _)
\* Fraction of log2 of x / Scale in [1, 2), by repeated squaring, scaled by Scale.
Log2Frac(x, bit, acc) ==
    IF bit > LogBits THEN acc
    ELSE LET sq == (x * x) \div Scale
         IN  IF sq >= 2 * Scale
             THEN Log2Frac(sq \div 2, bit + 1, acc + (Scale \div (2 ^ bit)))
             ELSE Log2Frac(sq, bit + 1, acc)

RECURSIVE Log2Int(_)
Log2Int(c) == IF c < 2 THEN 0 ELSE 1 + Log2Int(c \div 2)

\* f32::log2 of a positive count, scaled by Scale.
Log2Fix(c) ==
    LET e == Log2Int(c)
    IN  e * Scale + Log2Frac((c * Scale) \div (2 ^ e), 1, 0)

\* -------------------------------------------------------------- characters
LowerAlpha == <<"a","b","c","d","e","f","g","h","i","j","k","l","m",
                "n","o","p","q","r","s","t","u","v","w","x","y","z">>
UpperAlpha == <<"A","B","C","D","E","F","G","H","I","J","K","L","M",
                "N","O","P","Q","R","S","T","U","V","W","X","Y","Z">>
DigitChars == {"0","1","2","3","4","5","6","7","8","9"}

\* The members of the character class [a-zA-Z0-9']
WordChars == Range(LowerAlpha) \cup Range(UpperAlpha) \cup DigitChars \cup {"'"}

\* WORD_RE: the character class [a-zA-Z0-9']
WORD_RE(c) == c \in WordChars

\* Upper-case letter -> its lower-case letter.
LowerOf == [c \in Range(UpperAlpha) |-> LowerAlpha[CHOOSE i \in DOMAIN UpperAlpha : UpperAlpha[i] = c]]

ToLowerChar(c) == IF c \in DOMAIN LowerOf THEN LowerOf[c] ELSE c

\* str::to_lowercase
to_lowercase(s) == [i \in DOMAIN s |-> ToLowerChar(s[i])]

\* str::contains(&str)
contains(hay, needle) ==
    \E i \in 1..(Len(hay) - Len(needle) + 1) : SubSeq(hay, i, i + Len(needle) - 1) = needle

RECURSIVE TokenizeFrom(_, _, _, _)
\* find_iter: the maximal runs of WORD_RE characters, left to right, lowercased.
TokenizeFrom(s, i, cur, acc) ==
    IF i > Len(s) THEN (IF cur = <<>> THEN acc ELSE Append(acc, cur))
    ELSE IF WORD_RE(s[i]) THEN TokenizeFrom(s, i + 1, Append(cur, ToLowerChar(s[i])), acc)
    ELSE TokenizeFrom(s, i + 1, <<>>, IF cur = <<>> THEN acc ELSE Append(acc, cur))

tokenize(s) == TokenizeFrom(s, 1, <<>>, <<>>)

cosine_sim(a, b) == SumSeq([i \in 1..Min(Len(a), Len(b)) |-> a[i] * b[i]])

\* ------------------------------------------------------------------ inputs
allowed_exts == <<"txt", "md", "csv", "json", "pdf">>

\* Extensions in byte order ("" is a file name without extension).
ExtOrder == <<"", "TXT", "bin", "csv", "json", "md", "pdf", "txt">>

ExtRank(e) == CHOOSE i \in DOMAIN ExtOrder : ExtOrder[i] = e

\* A path is dir/stem.ext: dir 0 is the source directory itself, dir d > 0 the
\* subdirectory nested d levels below it (s, s/s, ..); stems are digits, so that the
\* component-wise order of two paths is the order of (dir, stem, extension).
MkPath(d, s, e) == [dir |-> d, stem |-> s, ext |-> e]

\* PathBuf's Ord, used by files.sort()
PathLess(p, r) ==
    \/ p.dir < r.dir
    \/ p.dir = r.dir /\ p.stem < r.stem
    \/ p.dir = r.dir /\ p.stem = r.stem /\ ExtRank(p.ext) < ExtRank(r.ext)

\* The i-th allow-listed candidate file.
AllowedPath(i) == MkPath(0, i, allowed_exts[((i - 1) % Len(allowed_exts)) + 1])

\* Candidate files the scan must skip.
OtherPaths == {MkPath(0, 0, "bin")}

\* Directory entries: a regular file with readable text, a regular file whose
\* read/extraction fails, or a directory.
Readable(t) == [kind |-> "file", ok |-> TRUE, text |-> t]
Unreadable == [kind |-> "file", ok |-> FALSE, text |-> <<"?">>]
DirEntry == [kind |-> "dir", ok |-> FALSE, text |-> <<>>]

TextAB == <<"a", " ", "b">>
TextBAA == <<"b", " ", "A", "-", "a">>
TextCA == <<"c", "'", "c", ",", "a">>

Contents == {Unreadable, Readable(TextAB), Readable(TextBAA), Readable(TextCA)}

SmallDirs ==
    LET cand == {AllowedPath(i) : i \in 1..MaxFiles}
    IN  UNION {UNION {{[p \in S \cup O |-> IF p \in O THEN Readable(TextAB) ELSE f[p]] :
                          f \in [S -> Contents]} : S \in SUBSET cand} : O \in SUBSET OtherPaths}

\* Contents of the i-th file of a large directory.
BigContent(i) ==
    IF i % 4 = 0 THEN Unreadable
    ELSE IF i % 4 = 1 THEN Readable(TextCA)
    ELSE IF i % 4 = 2 THEN Readable(TextAB)
    ELSE Readable(TextBAA)

BigDirs ==
    {[p \in {AllowedPath(i) : i \in 1..n} |-> BigContent(p.stem)] :
        n \in (MAX_CONTEXT_DOCS + 1)..(MAX_CONTEXT_DOCS + ExtraDocs)}

\* Directories with nested files, files without an allow-listed extension and a
\* directory whose name ends in an allow-listed extension.
TreeMixed ==
    (MkPath(0, 1, "txt") :> Readable(TextAB)) @@
    (MkPath(1, 1, "md") :> Readable(TextCA)) @@
    (MkPath(2, 1, "json") :> Unreadable) @@
    (MkPath(0, 2, "") :> Readable(TextBAA)) @@
    (MkPath(1, 2, "TXT") :> Readable(TextBAA)) @@
    (MkPath(2, 0, "bin") :> Readable(TextAB)) @@
    (MkPath(0, 3, "md") :> DirEntry)

TreeSkipped ==
    (MkPath(0, 1, "") :> Readable(TextAB)) @@
    (MkPath(1, 1, "TXT") :> Readable(TextCA)) @@
    (MkPath(1, 2, "pdf") :> DirEntry)

TreeDirs == {TreeMixed, TreeSkipped}

Dirs == SmallDirs \cup BigDirs \cup TreeDirs

\* Places of the index file: a path of its own, the path of the file the query
\* writes its last general prompt to, or a .json file in the source directory.
OwnPath == "index.json"
DebugPath == "/tmp/voltai_last_prompt.txt"
InsidePath == "<dir>/0.json"

\* The index file as an entry of the source directory.
InsideFile == MkPath(0, 0, "json")

\* The text of a written index file: the JSON object of the index, of which the
\* model keeps the member names and leaves out the members' values.
IndexFileText ==
    <<"{", "\"", "d", "o", "c", "s", "\"", ":", " ", "[", "]", ",", " ", "\"", "t", "e", "r", "m", "s", "\"",
      ":", " ", "[", "]", ",", " ", "\"", "v", "e", "c", "t", "o", "r", "s", "\"", ":", " ", "[", "]", "}">>

\* The text of an index file whose writing failed: the beginning of that JSON.
PartFileText == <<"{">>

\* ------------------------------------------------------------------- state
VARIABLES
    dir,          \* the source directory: path -> contents
    index_path,   \* where the index file lies: the --out of a build, the --index of a query
    index_file,   \* the persisted index file
    ipc,          \* index_dir: position
    files,        \* index_dir: the sorted allow-listed paths
    docs,         \* index_dir: Vec<Doc>
    df,           \* index_dir: HashMap term -> document frequency
    docs_tokens,  \* index_dir: the tokens of each document
    terms,        \* index_dir: the vocabulary
    vectors,      \* index_dir: the vectors, raw and then normalized
    ires,         \* result of the last index_dir invocation
    pending       \* index_dir: items of the running parallel pass no worker has taken

ivars == <<ipc, files, docs, df, docs_tokens, terms, vectors, ires, pending>>

\* struct Index
Index(d, t, v) == [docs |-> d, terms |-> t, vectors |-> v]

\* The index file: absent, not decodable as an Index, or holding an Index.
Absent == [state |-> "absent", idx |-> Index(<<>>, <<>>, <<>>)]
Garbage == [state |-> "garbage", idx |-> Index(<<>>, <<>>, <<>>)]
Stored(i) == [state |-> "index", idx |-> i]

\* The source directory after File::create(out) and the writing left the index file
\* as f: a file like any other when out lies in the directory.
dir_after_write(d, f) ==
    IF index_path # InsidePath \/ f.state = "absent" THEN d
    ELSE [p \in DOMAIN d \cup {InsideFile} |->
             IF p = InsideFile
             THEN Readable(IF f.state = "index" THEN IndexFileText ELSE PartFileText)
             ELSE d[p]]

\* ---------------------------------------------------------------- index_dir
\* e.file_type().is_file()
is_file(c) == c.kind = "file"

\* Mutant of is_allowed: a name without extension passes the filter.
is_allowed_or_none(p) == p.ext = "" \/ \E i \in DOMAIN allowed_exts : allowed_exts[i] = p.ext

\* The extension filter of the directory walk.
is_allowed(p) == \E i \in DOMAIN allowed_exts : allowed_exts[i] = p.ext

RECURSIVE SortPaths(_)
\* files.sort()
SortPaths(S) ==
    IF S = {} THEN <<>>
    ELSE LET m == CHOOSE p \in S : \A r \in S \ {p} : PathLess(p, r)
         IN  <<m>> \o SortPaths(S \ {m})

\* p.file_name()
file_name(p) == [stem |-> p.stem, ext |-> p.ext]

\* Mutant of read_or_empty: the bytes of an unreadable file are kept.
read_lossy(c) == c.text

\* read_file_content(p).unwrap_or_else(|_| String::new())
read_or_empty(c) == IF c.ok THEN c.text ELSE <<>>

\* The closure of files.par_iter().map(..)
MakeDoc(p) == [id |-> file_name(p), path |-> p, text |-> read_or_empty(dir[p])]

RECURSIVE DfTokensNoSeen(_, _, _)
\* Mutant of DfTokens: every occurrence is counted, the seen set is ignored.
DfTokensNoSeen(d, toks, seen) ==
    IF toks = <<>> THEN d
    ELSE LET t == Head(toks)
         IN  DfTokensNoSeen([x \in DOMAIN d \cup {t} |->
                                IF x = t THEN (IF t \in DOMAIN d THEN d[t] ELSE 0) + 1 ELSE d[x]],
                            Tail(toks), seen)

RECURSIVE DfTokens(_, _, _)
\* for t in toks: if seen.insert(t) { *df.entry(t).or_insert(0) += 1 }
DfTokens(d, toks, seen) ==
    IF toks = <<>> THEN d
    ELSE LET t == Head(toks)
         IN  IF t \in seen THEN DfTokens(d, Tail(toks), seen)
             ELSE DfTokens([x \in DOMAIN d \cup {t} |->
                               IF x = t THEN (IF t \in DOMAIN d THEN d[t] ELSE 0) + 1 ELSE d[x]],
                           Tail(toks), seen \cup {t})

RECURSIVE DfDocsSkipLast(_, _)
\* Mutant of DfDocs: the last document is not counted.
DfDocsSkipLast(d, toks_list) ==
    IF Len(toks_list) <= 1 THEN d
    ELSE DfDocsSkipLast(DfTokens(d, Head(toks_list), {}), Tail(toks_list))

RECURSIVE DfDocs(_, _)
\* for doc in &docs { .. }
DfDocs(d, toks_list) ==
    IF toks_list = <<>> THEN d
    ELSE DfDocs(DfTokens(d, Head(toks_list), {}), Tail(toks_list))

RECURSIVE InsertDesc(_, _, _)
\* Insert x after every element whose key is >= key[x]: a stable descending sort step.
InsertDesc(sorted, x, key) ==
    IF sorted = <<>> THEN <<x>>
    ELSE IF key[Head(sorted)] >= key[x] THEN <<Head(sorted)>> \o InsertDesc(Tail(sorted), x, key)
    ELSE <<x>> \o sorted

RECURSIVE SortDescFrom(_, _, _)
SortDescFrom(s, acc, key) ==
    IF s = <<>> THEN acc ELSE SortDescFrom(Tail(s), InsertDesc(acc, Head(s), key), key)

\* v.sort_by(|a, b| b.1.cmp(&a.1)): stable, descending by key
sort_by_desc(s, key) == SortDescFrom(s, <<>>, key)

\* terms.iter().enumerate().map(|(i, t)| (t, i)).collect::<HashMap>(): the last position wins
term_index(ts) ==
    [t \in Range(ts) |-> CHOOSE i \in DOMAIN ts : ts[i] = t /\ \A j \in DOMAIN ts : ts[j] = t => j <= i]

\* Occurrences of term t among toks.
Count(toks, t) == Cardinality({i \in DOMAIN toks : toks[i] = t})

\* Mutant of encode: the weight is log2(count), without the 1 added to it.
encode_log_only(toks, ts) ==
    [i \in DOMAIN ts |-> Log2Fix(Cardinality({j \in DOMAIN toks : toks[j] = ts[i]}))]

\* Mutant of encode: the vector is sized by the document's tokens, not by the vocabulary.
encode_by_tokens(toks, ts) ==
    [i \in DOMAIN toks |-> Scale + Log2Fix(Count(toks, toks[i]))]

\* The closure of docs_tokens.par_iter().map(..): vec[i] = 1 + log2(count)
encode(toks, ts) ==
    LET ti == term_index(ts)
    IN  [i \in DOMAIN ts |->
            LET count == Cardinality({j \in DOMAIN toks : toks[j] \in DOMAIN ti /\ ti[toks[j]] = i})
            IN  IF count = 0 THEN 0 ELSE Scale + Log2Fix(count)]

\* Mutant of normalize: the components are divided by their sum.
normalize_l1(v) ==
    LET norm == SumSeq(v)
    IN  [i \in DOMAIN v |-> IF norm = 0 THEN 0 ELSE (v[i] * Scale) \div norm]

\* norm = sqrt(sum of squares).max(1e-9); x /= norm
normalize(v) ==
    LET norm == ISqrt(SumSeq([i \in DOMAIN v |-> v[i] * v[i]]))
    IN  [i \in DOMAIN v |-> IF norm = 0 THEN 0 ELSE (v[i] * Scale) \div norm]

VARIABLES
    qpc,               \* query_with_ollama: position
    q,                 \* the query string
    k,                 \* the result-count limit
    idx,               \* the Index loaded before the prompt is built
    q_toks,            \* the tokens of the query
    q_vec,             \* the query vector
    is_general_query,  \* the classification
    selected_docs,     \* positions (from 1) of the selected documents
    context,           \* one entry per document written into the prompt context
    prompt,            \* the prompt handed to ollama run
    wrote_debug,       \* whether this invocation wrote /tmp/voltai_last_prompt.txt
    ollama_runs,       \* how many times this invocation started `ollama run`
    printed,           \* what this invocation printed on stdout
    qres               \* result of the invocation

qvars == <<qpc, q, k, idx, q_toks, q_vec, is_general_query, selected_docs, context, prompt,
           wrote_debug, ollama_runs, printed, qres>>

\* nlp::summarization::summarize_text_content
VARIABLES
    spc,               \* summarize_text_content: position
    sum_text,          \* the text to summarize
    sentences,         \* the sentences found in the text
    selected_indices,  \* the positions of the sentences of the summary
    summary            \* the returned string

svars == <<spc, sum_text, sentences, selected_indices, summary>>

vars == <<dir, index_path, index_file, ivars, qvars, svars>>

\* -------------------------------------------------------- query_with_ollama
SUMMARIZE == <<"s","u","m","m","a","r","i","z","e">>
LIST == <<"l","i","s","t">>
ALL == <<"a","l","l">>
DOCUMENTS == <<"d","o","c","u","m","e","n","t","s">>

\* Mutant of classify: the token threshold is off by one.
classify_le(qq, toks) ==
    \/ contains(to_lowercase(qq), SUMMARIZE)
    \/ contains(to_lowercase(qq), LIST)
    \/ contains(to_lowercase(qq), ALL)
    \/ contains(to_lowercase(qq), DOCUMENTS)
    \/ Len(toks) <= MIN_SPECIFIC_TOKENS

\* q.to_lowercase().contains(..) || .. || q_toks.len() < 3
classify(qq, toks) ==
    \/ contains(to_lowercase(qq), SUMMARIZE)
    \/ contains(to_lowercase(qq), LIST)
    \/ contains(to_lowercase(qq), ALL)
    \/ contains(to_lowercase(qq), DOCUMENTS)
    \/ Len(toks) < MIN_SPECIFIC_TOKENS

\* Mutant of query_vector: a component records presence, not the number of occurrences.
query_vector_presence(qq, ts) ==
    LET toks == tokenize(qq)
    IN  normalize([i \in DOMAIN ts |-> IF ts[i] \in Range(toks) THEN Scale ELSE 0])

\* q_vec[i] += 1.0 for every query token in term_map, then normalized
query_vector(qq, ts) ==
    LET tm == term_index(ts)
        toks == tokenize(qq)
    IN  normalize([i \in DOMAIN ts |->
            Scale * Cardinality({j \in DOMAIN toks : toks[j] \in DOMAIN tm /\ tm[toks[j]] = i})])

\* sims: position of a vector -> cosine_sim(&q_vec, v)
sims(qq, ix) == [i \in DOMAIN ix.vectors |-> cosine_sim(query_vector(qq, ix.terms), ix.vectors[i])]

\* Mutant of top_k: the ranking is not sorted.
top_k_unsorted(qq, ix, kk) == Take([i \in DOMAIN ix.vectors |-> i], kk)

\* sims.sort_by(descending score); sims.into_iter().take(k)
top_k(qq, ix, kk) ==
    Take(sort_by_desc([i \in DOMAIN ix.vectors |-> i], sims(qq, ix)), kk)

\* The documents selected for the prompt.
select_docs(general, qq, ix, kk) ==
    IF general THEN [i \in DOMAIN ix.docs |-> i] ELSE top_k(qq, ix, kk)

\* Mutant of keyword_tf: tokens of 2 characters are counted too.
keyword_tf_ge(text) ==
    LET toks == tokenize(text)
    IN  [t \in {toks[i] : i \in {j \in DOMAIN toks : Len(toks[j]) >= MAX_SHORT_TOKEN}} |->
            Count(toks, t)]

\* tf: HashMap token -> occurrences, over the tokens longer than 2 characters
keyword_tf(text) ==
    LET toks == tokenize(text)
    IN  [t \in {toks[i] : i \in {j \in DOMAIN toks : Len(toks[j]) > MAX_SHORT_TOKEN}} |->
            Count(toks, t)]

RECURSIVE sorted_orders(_)
\* kv = tf.into_iter().collect() takes the entries in any order and the stable
\* kv.sort_by(descending count) keeps that order among equal counts: the outcomes are
\* the orders that go through the groups of equal count from the highest count down,
\* each group in any order.
sorted_orders(tf) ==
    IF DOMAIN tf = {} THEN {<<>>}
    ELSE LET top == CHOOSE m \in Range(tf) : \A c \in Range(tf) : c <= m
             group == {t \in DOMAIN tf : tf[t] = top}
             rest == [t \in DOMAIN tf \ group |-> tf[t]]
         IN  {p \o r : p \in Perms(group), r \in sorted_orders(rest)}

\* kv = tf.into_iter() (any order); kv.sort_by(descending count); take(n)
keywords(text, n) == {Take(s, n) : s \in sorted_orders(keyword_tf(text))}

RECURSIVE concat(_)
\* The pieces of a text, one after the other.
concat(ss) == IF ss = <<>> THEN <<>> ELSE Head(ss) \o concat(Tail(ss))

RECURSIVE join(_)
\* keywords.join(", ")
join(ws) ==
    IF ws = <<>> THEN <<>>
    ELSE IF Len(ws) = 1 THEN Head(ws)
    ELSE Head(ws) \o <<",", " ">> \o join(Tail(ws))

\* Literal texts of the formats are kept as one element of the text each.
NO_KEYWORDS == <<"(no keywords)">>

\* if keywords.is_empty() { "(no keywords)" } else { keywords.join(", ") }
keyword_text(kw) == IF kw = <<>> THEN NO_KEYWORDS ELSE join(kw)

\* The text of a file name: stem, and a dot and the extension when there is one.
name_text(fname) ==
    IF fname.ext = "" THEN <<ToString(fname.stem)>>
    ELSE <<ToString(fname.stem), ".", fname.ext>>

\* format!("Filename: {}\nKeywords: {}\n---\n", fname, kw)
context_line(fname, kw) ==
    <<"Filename: ">> \o name_text(fname) \o <<"\nKeywords: ">> \o keyword_text(kw)
        \o <<"\n---\n">>

\* format!("This document discusses: {}.", kw)
summary_text(kw) == <<"This document discusses: ">> \o keyword_text(kw) \o <<".">>

\* The two prompt formats; the instructions and the example of the general format
\* are one element each.
prompt_text(general, ctx, qq) ==
    LET context_text == concat([j \in DOMAIN ctx |-> ctx[j].line])
    IN  IF general
        THEN <<"You are a concise summarizer. DO NOT QUOTE OR OUTPUT RAW DOCUMENT TEXT. (..)\n\n",
               "Example:\nFilename: example.txt\nKeywords: contract, delivery, schedule\n---\n(..)\n",
               "\nDocuments:\n">>
             \o context_text
             \o <<"\nEnd of documents.\n\nProvide the summaries now.">>
        ELSE <<"Use the following documents as context:\n">> \o context_text
             \o <<"\nQuestion: ">> \o qq

\* Mutant of context_docs: no cap.
context_docs_uncapped(sel) == sel

\* The documents the context loop visits: selected_docs.iter().take(10)
context_docs(sel) == Take(sel, MAX_CONTEXT_DOCS)

\* The context loop: for each visited document its file name and keywords.
contexts(ix, sel) ==
    SeqProduct([j \in DOMAIN sel |->
        {[doc |-> sel[j], fname |-> file_name(ix.docs[sel[j]].path), kw |-> kw,
          line |-> context_line(file_name(ix.docs[sel[j]].path), kw)] :
            kw \in keywords(ix.docs[sel[j]].text, PROMPT_KEYWORDS)}])

\* The fallback loop: one description per document of sims.take(k).
descriptions(ix, sel) ==
    SeqProduct([j \in DOMAIN sel |->
        {[doc |-> sel[j], path |-> ix.docs[sel[j]].path, kw |-> kw,
          summary |-> summary_text(kw)] :
            kw \in keywords(ix.docs[sel[j]].text, FALLBACK_KEYWORDS)}])

\* idx.docs[i] for every i of sel is in bounds.
in_bounds(ix, sel) == \A j \in DOMAIN sel : sel[j] \in DOMAIN ix.docs

\* ----------------------------------------------------- inputs of the query
\* The specific query of the specification's scenario.
QueryKubernetes ==
    <<"k", "u", "b", "e", "r", "n", "e", "t", "e", "s", " ", "d", "e", "p", "l", "o", "y", "m",
      "e", "n", "t", " ", "b", "e", "s", "t", " ", "p", "r", "a", "c", "t", "i", "c", "e", "s">>
QueryAB == <<"a", " ", "b">>
QueryABB == <<"a", " ", "b", " ", "B">>
QueryCXA == <<"c", "'", "c", " ", "x", "?", "A">>
QueryAll == <<"a", " ", "b", " ", "A", "L", "L">>
QueryInstall == <<"b", " ", "i", "n", "s", "t", "a", "l", "l", " ", "a">>
QueryList == <<"L", "i", "s", "t", " ", "a", " ", "b">>
QuerySummarize == <<"a", " ">> \o SUMMARIZE \o <<" ", "c", "'", "c">>
QueryDocuments == DOCUMENTS \o <<",", "a", ",", "b">>

Queries == {<<>>, QueryKubernetes, QueryAB, QueryABB, QueryCXA, QueryAll, QueryInstall,
            QueryList, QuerySummarize, QueryDocuments}

\* Values of the result-count limit k: none, fewer than the documents of a two-file
\* directory, and more than the context loop visits.
Ks == {0, 1, MAX_CONTEXT_DOCS + 1}

\* Index files that were not written by index_dir: their shapes are wrong.
DocOf(i, text) == [id |-> file_name(AllowedPath(i)), path |-> AllowedPath(i), text |-> text]

\* Two documents, one vector, and that vector shorter than the vocabulary.
FewVectors == Index(<<DocOf(1, TextAB), DocOf(2, TextCA)>>, <<<<"a">>, <<"b">>>>, <<<<Scale>>>>)

\* One document, two vectors.
ManyVectors == Index(<<DocOf(1, TextAB)>>, <<<<"a">>>>, <<<<Scale>>, <<Scale>>>>)

InitialIndexFiles == {Absent, Garbage, Stored(FewVectors), Stored(ManyVectors)}

\* -------------------------------------------------------------------- Init
NoPrompt == [kind |-> "none", context |-> <<>>, q |-> <<>>, text |-> <<>>]
NoOutput == [generated |-> FALSE, descriptions |-> <<>>]

IndexIdle ==
    /\ ipc = "idle"
    /\ files = <<>> /\ docs = <<>> /\ df = <<>> /\ docs_tokens = <<>>
    /\ terms = <<>> /\ vectors = <<>>
    /\ pending = {}

QueryIdle ==
    /\ qpc = "idle"
    /\ q = <<>> /\ k = 0
    /\ idx = Index(<<>>, <<>>, <<>>)
    /\ q_toks = <<>> /\ q_vec = <<>>
    /\ is_general_query = FALSE
    /\ selected_docs = <<>> /\ context = <<>>
    /\ prompt = NoPrompt
    /\ wrote_debug = FALSE
    /\ ollama_runs = 0
    /\ printed = NoOutput
    /\ qres = "none"

SumIdle ==
    /\ spc = "idle"
    /\ sum_text = <<>> /\ sentences = <<>> /\ selected_indices = <<>> /\ summary = <<>>

Init ==
    /\ dir \in Dirs
    /\ index_path = OwnPath
    /\ SumIdle
    /\ index_file \in InitialIndexFiles
    /\ IndexIdle
    /\ ires = "none"
    /\ QueryIdle

\* -------------------------------------------------------- index_dir: steps
\* WalkDir + extension filter + files.sort()
scan(d) == SortPaths({p \in DOMAIN d : is_file(d[p]) /\ is_allowed(p)})

IndexStart ==
    /\ ipc = "idle" /\ qpc = "idle"
    /\ files' = scan(dir)
    /\ ipc' = "read"
    /\ UNCHANGED <<dir, index_path, svars, index_file, docs, df, docs_tokens, terms, vectors, ires, pending, qvars>>

\* files.par_iter().map(..).collect(): one Doc per file, in the order of files
IndexRead ==
    /\ ipc = "read"
    /\ docs' = [i \in DOMAIN files |-> MakeDoc(files[i])]
    /\ ipc' = "df"
    /\ UNCHANGED <<dir, index_path, svars, index_file, files, df, docs_tokens, terms, vectors, ires, pending, qvars>>

\* The sequential document-frequency pass.
IndexDf ==
    /\ ipc = "df"
    /\ docs_tokens' = [i \in DOMAIN docs |-> tokenize(docs[i].text)]
    /\ df' = DfDocs(<<>>, docs_tokens')
    /\ ipc' = "sort"
    /\ UNCHANGED <<dir, index_path, svars, index_file, files, docs, terms, vectors, ires, pending, qvars>>

\* df.into_iter().collect() (any order of the map), then the stable sort by frequency
IndexSort ==
    /\ ipc = "sort"
    /\ \E order \in Perms(DOMAIN df) : terms' = sort_by_desc(order, df)
    /\ ipc' = "encode"
    /\ UNCHANGED <<dir, index_path, svars, index_file, files, docs, df, docs_tokens, vectors, ires, pending, qvars>>

IndexEncode ==
    /\ ipc = "encode"
    /\ vectors' = [i \in DOMAIN docs_tokens |-> encode(docs_tokens[i], terms)]
    /\ ipc' = "norm"
    /\ UNCHANGED <<dir, index_path, svars, index_file, files, docs, df, docs_tokens, terms, ires, pending, qvars>>

IndexNorm ==
    /\ ipc = "norm"
    /\ vectors' = [i \in DOMAIN vectors |-> normalize(vectors[i])]
    /\ ipc' = "write"
    /\ UNCHANGED <<dir, index_path, svars, index_file, files, docs, df, docs_tokens, terms, ires, pending, qvars>>

\* File::create(out)?; serde_json::to_writer_pretty(fout, &index)?; Ok(())
IndexWrite ==
    /\ ipc = "write"
    /\ \E outcome \in {"ok", "create_failed", "write_failed"} :
          /\ index_file' = CASE outcome = "ok" -> Stored(Index(docs, terms, vectors))
                             [] outcome = "create_failed" -> index_file
                             [] outcome = "write_failed" -> Garbage
          /\ ires' = CASE outcome = "ok" -> "Ok"
                       [] outcome = "create_failed" -> "ErrCreate"
                       [] outcome = "write_failed" -> "ErrWrite"
    /\ dir' = dir_after_write(dir, index_file')
    /\ ipc' = "idle"
    /\ files' = <<>> /\ docs' = <<>> /\ df' = <<>> /\ docs_tokens' = <<>>
    /\ terms' = <<>> /\ vectors' = <<>>
    /\ UNCHANGED <<index_path, svars, pending, qvars>>

\* ------------------------------------------------ query_with_ollama: steps
\* Mutant of RawPrompt: the prompt is the lowercased query.
RawPromptLower(qq) ==
    [kind |-> "raw", context |-> <<>>, q |-> to_lowercase(qq), text |-> to_lowercase(qq)]

\* let mut prompt = q.to_string()
RawPrompt(qq) == [kind |-> "raw", context |-> <<>>, q |-> qq, text |-> qq]

\* Mutant of after_load: a file that cannot be decoded is treated like a missing one.
after_load_lenient(state) == IF state = "index" THEN "loaded" ELSE "run"

\* if index_file.exists() { File::open(..)?; serde_json::from_reader(..)? }: where the
\* invocation continues; `?` returns the error at once.
after_load(state) ==
    CASE state = "absent" -> "run"
      [] state = "garbage" -> "done"
      [] state = "index" -> "loaded"

\* let mut prompt = q.to_string(); if index_file.exists() { File::open?; from_reader? }
QueryLoad(qq, kk) ==
    /\ qpc = "idle" /\ ipc = "idle"
    /\ q' = qq /\ k' = kk
    /\ prompt' = RawPrompt(qq)
    /\ idx' = index_file.idx
    /\ qpc' = after_load(index_file.state)
    /\ qres' = IF qpc' = "done" THEN "Err" ELSE "none"
    /\ UNCHANGED <<dir, index_path, svars, index_file, ivars, q_toks, q_vec, is_general_query, selected_docs,
                   context, wrote_debug, ollama_runs, printed>>

\* if !idx.terms.is_empty() && !idx.vectors.is_empty() { classify; select }
QuerySelect ==
    /\ qpc = "loaded"
    /\ IF idx.terms # <<>> /\ idx.vectors # <<>>
       THEN /\ q_toks' = tokenize(q)
            /\ q_vec' = query_vector(q, idx.terms)
            /\ is_general_query' = classify(q, q_toks')
            /\ selected_docs' = select_docs(is_general_query', q, idx, k)
            /\ qpc' = "selected"
       ELSE /\ qpc' = "run"
            /\ UNCHANGED <<q_toks, q_vec, is_general_query, selected_docs>>
    /\ UNCHANGED <<dir, index_path, svars, index_file, ivars, q, k, idx, context, prompt, wrote_debug,
                   ollama_runs, printed, qres>>

\* File::create("/tmp/voltai_last_prompt.txt") and write_all(prompt): the file at that
\* path now holds the prompt, which is not the JSON of an Index; other files are
\* left as they were.
debug_write(f) == IF index_path = DebugPath THEN Garbage ELSE f

\* The context loop and the prompt; idx.docs[i] panics when i is out of bounds.
QueryContext ==
    /\ qpc = "selected"
    /\ LET visit == context_docs(selected_docs)
       IN  IF in_bounds(idx, visit)
           THEN /\ \E ctx \in contexts(idx, visit) :
                      /\ context' = ctx
                      /\ prompt' = IF ctx = <<>> THEN prompt
                                   ELSE [kind |-> IF is_general_query THEN "general" ELSE "specific",
                                         context |-> ctx, q |-> q,
                                         text |-> prompt_text(is_general_query, ctx, q)]
                      /\ wrote_debug' = (ctx # <<>> /\ is_general_query)
                      /\ index_file' = IF wrote_debug' THEN debug_write(index_file)
                                        ELSE index_file
                /\ qpc' = "run"
                /\ qres' = qres
           ELSE /\ qpc' = "done"
                /\ qres' = "Panic"
                /\ UNCHANGED <<context, prompt, wrote_debug, index_file>>
    /\ UNCHANGED <<dir, index_path, svars, ivars, q, k, idx, q_toks, q_vec, is_general_query,
                   selected_docs, ollama_runs, printed>>

\* Mutant of after_run: a failed generation is attempted again.
after_run_retry(outcome) == IF outcome = "success" THEN "done" ELSE "run"

\* match output { Ok(o) if o.status.success() => .., Ok(_) => fallback, Err(_) => fallback }
after_run(outcome) == IF outcome = "success" THEN "done" ELSE "fallback"

\* Command::new("ollama").arg("run")..output(): success, non-zero exit, or not started
QueryRun ==
    /\ qpc = "run"
    /\ ollama_runs' = ollama_runs + 1
    /\ \E outcome \in {"success", "failed", "not_invoked"} :
          /\ qpc' = after_run(outcome)
          /\ IF outcome = "success"
             THEN /\ printed' = [generated |-> TRUE, descriptions |-> <<>>]
                  /\ qres' = "Ok"
             ELSE UNCHANGED <<printed, qres>>
    /\ UNCHANGED <<dir, index_path, svars, index_file, ivars, q, k, idx, q_toks, q_vec, is_general_query,
                   selected_docs, context, prompt, wrote_debug>>

\* The fallback of both failure branches: the index file is opened and decoded again,
\* every vector is scored and the first k of the ranking are described.
QueryFallback ==
    /\ qpc = "fallback"
    /\ LET ix == index_file.idx
           sel == top_k(q, ix, k)
       IN  CASE index_file.state = "absent" ->
                  /\ qres' = "Ok"
                  /\ printed' = printed
             [] index_file.state = "garbage" ->
                  /\ qres' = "Err"
                  /\ printed' = printed
             [] index_file.state = "index" /\ in_bounds(ix, sel) ->
                  /\ qres' = "Ok"
                  /\ \E d \in descriptions(ix, sel) :
                        printed' = [generated |-> FALSE, descriptions |-> d]
             [] index_file.state = "index" /\ ~in_bounds(ix, sel) ->
                  /\ qres' = "Panic"
                  /\ printed' = printed
    /\ qpc' = "done"
    /\ UNCHANGED <<dir, index_path, svars, index_file, ivars, q, k, idx, q_toks, q_vec, is_general_query,
                   selected_docs, context, prompt, wrote_debug, ollama_runs>>

\* The invocation has returned; its locals are gone.
QueryReturn ==
    /\ qpc = "done"
    /\ qpc' = "idle"
    /\ q' = <<>> /\ k' = 0
    /\ idx' = Index(<<>>, <<>>, <<>>)
    /\ q_toks' = <<>> /\ q_vec' = <<>>
    /\ is_general_query' = FALSE
    /\ selected_docs' = <<>> /\ context' = <<>>
    /\ prompt' = NoPrompt
    /\ wrote_debug' = FALSE
    /\ ollama_runs' = 0
    /\ printed' = NoOutput
    /\ qres' = "none"
    /\ UNCHANGED <<dir, index_path, svars, index_file, ivars>>

Next ==
    \/ IndexStart
    \/ IndexRead
    \/ IndexDf
    \/ IndexSort
    \/ IndexEncode
    \/ IndexNorm
    \/ IndexWrite
    \/ \E qq \in Queries, kk \in Ks : QueryLoad(qq, kk)
    \/ QuerySelect
    \/ QueryContext
    \/ QueryRun
    \/ QueryFallback
    \/ QueryReturn

Spec == Init /\ [][Next]_vars

\* ------------------------------------------- index_dir: the parallel passes
\* The three par_iter passes of index_dir, one worker step per item.  The closures
\* read only data that no step of the pass writes, so a worker step is atomic; the
\* workers take the items of a pass in any order.

\* Mutant of collect_at: results are pushed in the order the workers finish.
collect_push(acc, i, x) ==
    [j \in 1..(Cardinality(DOMAIN acc) + 1) |-> IF j <= Cardinality(DOMAIN acc) THEN acc[j] ELSE x]

\* collect() of an indexed parallel iterator: the result of item i goes to position i.
collect_at(acc, i, x) == [j \in DOMAIN acc \cup {i} |-> IF j = i THEN x ELSE acc[j]]

\* Directories of the parallel specification.
ParDirs == SmallDirs \cup TreeDirs

ParInit ==
    /\ dir \in ParDirs
    /\ index_path = OwnPath
    /\ SumIdle
    /\ index_file = Absent
    /\ IndexIdle
    /\ ires = "none"
    /\ QueryIdle

\* files.par_iter(): the items of the pass are handed to the pool.
ParBeginRead ==
    /\ ipc = "read"
    /\ pending' = DOMAIN files
    /\ ipc' = "reading"
    /\ UNCHANGED <<dir, index_path, svars, index_file, files, docs, df, docs_tokens, terms, vectors, ires, qvars>>

\* One worker runs the closure on files[i].
ParRead(i) ==
    /\ ipc = "reading" /\ i \in pending
    /\ docs' = collect_at(docs, i, MakeDoc(files[i]))
    /\ pending' = pending \ {i}
    /\ UNCHANGED <<dir, index_path, svars, index_file, ipc, files, df, docs_tokens, terms, vectors, ires, qvars>>

\* collect() returns when every item is done.
ParReadDone ==
    /\ ipc = "reading" /\ pending = {}
    /\ ipc' = "df"
    /\ UNCHANGED <<dir, index_path, svars, index_file, files, docs, df, docs_tokens, terms, vectors, ires,
                   pending, qvars>>

\* docs_tokens.par_iter()
ParBeginEncode ==
    /\ ipc = "encode"
    /\ pending' = DOMAIN docs_tokens
    /\ ipc' = "encoding"
    /\ UNCHANGED <<dir, index_path, svars, index_file, files, docs, df, docs_tokens, terms, vectors, ires, qvars>>

ParEncode(i) ==
    /\ ipc = "encoding" /\ i \in pending
    /\ vectors' = collect_at(vectors, i, encode(docs_tokens[i], terms))
    /\ pending' = pending \ {i}
    /\ UNCHANGED <<dir, index_path, svars, index_file, ipc, files, docs, df, docs_tokens, terms, ires, qvars>>

ParEncodeDone ==
    /\ ipc = "encoding" /\ pending = {}
    /\ ipc' = "norm"
    /\ UNCHANGED <<dir, index_path, svars, index_file, files, docs, df, docs_tokens, terms, vectors, ires,
                   pending, qvars>>

\* vectors.into_par_iter()
ParBeginNorm ==
    /\ ipc = "norm"
    /\ pending' = DOMAIN vectors
    /\ ipc' = "norming"
    /\ UNCHANGED <<dir, index_path, svars, index_file, files, docs, df, docs_tokens, terms, vectors, ires, qvars>>

ParNorm(i) ==
    /\ ipc = "norming" /\ i \in pending
    /\ vectors' = collect_at(vectors, i, normalize(vectors[i]))
    /\ pending' = pending \ {i}
    /\ UNCHANGED <<dir, index_path, svars, index_file, ipc, files, docs, df, docs_tokens, terms, ires, qvars>>

ParNormDone ==
    /\ ipc = "norming" /\ pending = {}
    /\ ipc' = "write"
    /\ UNCHANGED <<dir, index_path, svars, index_file, files, docs, df, docs_tokens, terms, vectors, ires,
                   pending, qvars>>

ParNext ==
    \/ IndexStart
    \/ ParBeginRead
    \/ \E i \in pending : ParRead(i)
    \/ ParReadDone
    \/ IndexDf
    \/ IndexSort
    \/ ParBeginEncode
    \/ \E i \in pending : ParEncode(i)
    \/ ParEncodeDone
    \/ ParBeginNorm
    \/ \E i \in pending : ParNorm(i)
    \/ ParNormDone
    \/ IndexWrite

SpecPar == ParInit /\ [][ParNext]_vars

\* ------------------------------- an index build and a query, at the same time
\* Two processes on the same index file: one runs index_dir, the other
\* query_with_ollama.  File::create truncates the file at once and to_writer_pretty
\* then writes it piece by piece, so between the two the file exists and holds no
\* complete JSON document.

\* An index written by an earlier build of another directory.
OldIndex ==
    Index(<<DocOf(1, TextAB)>>, <<<<"a">>, <<"b">>>>,
          <<normalize(encode(tokenize(TextAB), <<<<"a">>, <<"b">>>>))>>)

ConcDirs == {TreeMixed, (AllowedPath(1) :> Readable(TextCA))}

ConcQueries == {QueryAB, QueryCXA}

ConcInit ==
    /\ dir \in ConcDirs
    /\ index_path = OwnPath
    /\ SumIdle
    /\ index_file \in {Absent, Stored(OldIndex)}
    /\ IndexIdle
    /\ ires = "none"
    /\ QueryIdle

\* index_dir is called, whatever the query process does.
ConcIndexStart ==
    /\ ipc = "idle"
    /\ files' = scan(dir)
    /\ ipc' = "read"
    /\ UNCHANGED <<dir, index_path, svars, index_file, docs, df, docs_tokens, terms, vectors, ires, pending, qvars>>

\* let fout = File::create(out)?: the file is truncated, or the call fails
ConcCreate ==
    /\ ipc = "write"
    /\ \E outcome \in {"ok", "create_failed"} :
          IF outcome = "ok"
          THEN /\ index_file' = Garbage
               /\ ipc' = "writing"
               /\ UNCHANGED <<files, docs, df, docs_tokens, terms, vectors, ires>>
          ELSE /\ ires' = "ErrCreate"
               /\ ipc' = "idle"
               /\ files' = <<>> /\ docs' = <<>> /\ df' = <<>> /\ docs_tokens' = <<>>
               /\ terms' = <<>> /\ vectors' = <<>>
               /\ UNCHANGED index_file
    /\ dir' = dir_after_write(dir, index_file')
    /\ UNCHANGED <<index_path, svars, pending, qvars>>

\* serde_json::to_writer_pretty(fout, &index)?; Ok(())
ConcWriteBody ==
    /\ ipc = "writing"
    /\ \E outcome \in {"ok", "write_failed"} :
          /\ index_file' = IF outcome = "ok" THEN Stored(Index(docs, terms, vectors)) ELSE Garbage
          /\ ires' = IF outcome = "ok" THEN "Ok" ELSE "ErrWrite"
    /\ dir' = dir_after_write(dir, index_file')
    /\ ipc' = "idle"
    /\ files' = <<>> /\ docs' = <<>> /\ df' = <<>> /\ docs_tokens' = <<>>
    /\ terms' = <<>> /\ vectors' = <<>>
    /\ UNCHANGED <<index_path, svars, pending, qvars>>

\* query_with_ollama is called, whatever the build process does.
ConcQueryLoad(qq, kk) ==
    /\ qpc = "idle"
    /\ q' = qq /\ k' = kk
    /\ prompt' = RawPrompt(qq)
    /\ idx' = index_file.idx
    /\ qpc' = after_load(index_file.state)
    /\ qres' = IF qpc' = "done" THEN "Err" ELSE "none"
    /\ UNCHANGED <<dir, index_path, svars, index_file, ivars, q_toks, q_vec, is_general_query, selected_docs,
                   context, wrote_debug, ollama_runs, printed>>

ConcNext ==
    \/ ConcIndexStart
    \/ IndexRead
    \/ IndexDf
    \/ IndexSort
    \/ IndexEncode
    \/ IndexNorm
    \/ ConcCreate
    \/ ConcWriteBody
    \/ \E qq \in ConcQueries : ConcQueryLoad(qq, 1)
    \/ QuerySelect
    \/ QueryContext
    \/ QueryRun
    \/ QueryFallback
    \/ QueryReturn

SpecConc == ConcInit /\ [][ConcNext]_vars

\* ------------------------------------------------ the index file as JSON
\* serde_json on the derived Serialize/Deserialize of Index and Doc: a struct is an
\* object with one member per field, a Vec an array, a String a quoted string with
\* escapes, an f32 its decimal text.  The model keeps the tree of the document and
\* converts the leaves: strings to their escaped text, numbers to decimal digits.
Digits == <<"0", "1", "2", "3", "4", "5", "6", "7", "8", "9">>

DigitVal(c) == (CHOOSE i \in DOMAIN Digits : Digits[i] = c) - 1

RECURSIVE NatToStr(_)
NatToStr(n) ==
    IF n < Len(Digits) THEN <<Digits[n + 1]>>
    ELSE NatToStr(n \div Len(Digits)) \o <<Digits[(n % Len(Digits)) + 1]>>

RECURSIVE StrToNat(_, _)
StrToNat(s, acc) ==
    IF s = <<>> THEN acc ELSE StrToNat(Tail(s), acc * Len(Digits) + DigitVal(Head(s)))

RECURSIVE FracToStr(_, _)
\* The fraction digits of f / (unit * 10), without trailing zeros.
FracToStr(f, unit) ==
    IF unit = 0 \/ f = 0 THEN <<>>
    ELSE <<Digits[(f \div unit) + 1]>> \o FracToStr(f % unit, unit \div Len(Digits))

RECURSIVE StrToFrac(_, _)
StrToFrac(s, unit) ==
    IF s = <<>> \/ unit = 0 THEN 0
    ELSE DigitVal(Head(s)) * unit + StrToFrac(Tail(s), unit \div Len(Digits))

\* Serializer::serialize_f32: the shortest decimal text that reads back as the value
f32_to_json(v) ==
    LET frac == FracToStr(v % Scale, Scale \div Len(Digits))
    IN  NatToStr(v \div Scale) \o <<".">> \o (IF frac = <<>> THEN <<"0">> ELSE frac)

\* Deserializer::deserialize_f32
f32_from_json(s) ==
    LET dot == CHOOSE i \in DOMAIN s : s[i] = "."
    IN  StrToNat(SubSeq(s, 1, dot - 1), 0) * Scale
            + StrToFrac(SubSeq(s, dot + 1, Len(s)), Scale \div Len(Digits))

RECURSIVE EscapeFrom(_, _)
EscapeFrom(s, i) ==
    IF i > Len(s) THEN <<>>
    ELSE (CASE s[i] = "\"" -> <<"\\", "\"">>
            [] s[i] = "\\" -> <<"\\", "\\">>
            [] s[i] = "\n" -> <<"\\", "n">>
            [] OTHER -> <<s[i]>>) \o EscapeFrom(s, i + 1)

\* Mutant of str_to_json: the characters are written as they are.
str_to_json_raw(s) == s

\* Serializer::serialize_str: quote, backslash and control characters are escaped
str_to_json(s) == EscapeFrom(s, 1)

RECURSIVE UnescapeFrom(_, _)
UnescapeFrom(s, i) ==
    IF i > Len(s) THEN <<>>
    ELSE IF s[i] = "\\" /\ i < Len(s)
         THEN <<IF s[i + 1] = "n" THEN "\n" ELSE s[i + 1]>> \o UnescapeFrom(s, i + 2)
         ELSE <<s[i]>> \o UnescapeFrom(s, i + 1)

\* Deserializer::deserialize_string
str_from_json(s) == UnescapeFrom(s, 1)

\* serde_json::to_writer_pretty(fout, &index) / to_string(&index)
to_json(ix) ==
    [docs |-> [i \in DOMAIN ix.docs |->
                  [id |-> str_to_json(ix.docs[i].id),
                   path |-> str_to_json(ix.docs[i].path),
                   text |-> str_to_json(ix.docs[i].text)]],
     terms |-> [i \in DOMAIN ix.terms |-> str_to_json(ix.terms[i])],
     vectors |-> [i \in DOMAIN ix.vectors |->
                     [j \in DOMAIN ix.vectors[i] |-> f32_to_json(ix.vectors[i][j])]]]

\* serde_json::from_reader(f) / from_str(&json)
from_json(js) ==
    Index([i \in DOMAIN js.docs |->
              [id |-> str_from_json(js.docs[i].id),
               path |-> str_from_json(js.docs[i].path),
               text |-> str_from_json(js.docs[i].text)]],
          [i \in DOMAIN js.terms |-> str_from_json(js.terms[i])],
          [i \in DOMAIN js.vectors |->
              [j \in DOMAIN js.vectors[i] |-> f32_from_json(js.vectors[i][j])]])

\* Strings with the characters JSON escapes.
StrPlain == <<"d", "1">>
StrBackslash == <<"c", "\\", "n", ".", "t", "x", "t">>
StrQuoted == <<"a", "\"", "b", "\n", "c">>
StrEscapes == <<"\\", "\\", "\"">>

JsonDocs ==
    {[id |-> a, path |-> b, text |-> c] :
        a \in {StrPlain, <<>>}, b \in {StrPlain, StrBackslash},
        c \in {StrQuoted, StrEscapes, <<>>}}

JsonDocLists == {<<>>} \cup {<<d>> : d \in JsonDocs} \cup {<<d, d>> : d \in JsonDocs}

JsonTermLists == {<<>>, <<StrPlain>>, <<StrQuoted, StrBackslash>>}

\* Vectors with 0, 1, a value with three fraction digits and values with leading
\* and trailing zeros in the fraction.
JsonVectorLists ==
    {<<>>, <<<<>>>>, <<<<0, Scale>>>>,
     <<<<Scale \div 2, ISqrt((Scale * Scale) \div 2)>>, <<Scale \div 200, (7 * Scale) \div 100>>>>}

JsonIndexes ==
    {Index(d, t, v) : d \in JsonDocLists, t \in JsonTermLists, v \in JsonVectorLists}

\* The index file holds the JSON text of an Index, not yet decoded.
Encoded(js) == [state |-> "json", idx |-> Index(<<>>, <<>>, <<>>), json |-> js]

JsonInit ==
    /\ dir = <<>>
    /\ index_path = OwnPath
    /\ SumIdle
    /\ index_file = Absent
    /\ IndexIdle
    /\ ires = "none"
    /\ qpc = "idle"
    /\ q = <<>> /\ k = 0
    /\ idx \in JsonIndexes
    /\ q_toks = <<>> /\ q_vec = <<>>
    /\ is_general_query = FALSE
    /\ selected_docs = <<>> /\ context = <<>>
    /\ prompt = NoPrompt
    /\ wrote_debug = FALSE
    /\ ollama_runs = 0
    /\ printed = NoOutput
    /\ qres = "none"

\* let json = serde_json::to_string(&index)
JsonEncode ==
    /\ index_file.state = "absent"
    /\ index_file' = Encoded(to_json(idx))
    /\ UNCHANGED <<dir, index_path, svars, ivars, qvars>>

\* let deserialized: Index = serde_json::from_str(&json)
JsonDecode ==
    /\ index_file.state = "json"
    /\ index_file' = Stored(from_json(index_file.json))
    /\ UNCHANGED <<dir, index_path, svars, ivars, qvars>>

JsonNext == JsonEncode \/ JsonDecode

SpecJson == JsonInit /\ [][JsonNext]_vars

\* ------------------------------------------------------- tokenize, on its own
\* Letters of both cases, a digit, the apostrophe and two delimiters.
TokAlphabet == {"a", "B", "7", "'", " ", "-"}

TokInputs == UNION {[1..n -> TokAlphabet] : n \in 0..MaxTextLen}

TokInit ==
    /\ dir = <<>>
    /\ index_path = OwnPath
    /\ SumIdle
    /\ index_file = Absent
    /\ IndexIdle
    /\ ires = "none"
    /\ qpc = "idle"
    /\ q \in TokInputs /\ k = 0
    /\ idx = Index(<<>>, <<>>, <<>>)
    /\ q_toks = <<>> /\ q_vec = <<>>
    /\ is_general_query = FALSE
    /\ selected_docs = <<>> /\ context = <<>>
    /\ prompt = NoPrompt
    /\ wrote_debug = FALSE
    /\ ollama_runs = 0
    /\ printed = NoOutput
    /\ qres = "none"

\* let q_toks = tokenize(q)
TokenizeQuery ==
    /\ qpc = "idle"
    /\ q_toks' = tokenize(q)
    /\ qpc' = "tokenized"
    /\ UNCHANGED <<dir, index_path, svars, index_file, ivars, q, k, idx, q_vec, is_general_query, selected_docs,
                   context, prompt, wrote_debug, ollama_runs, printed, qres>>

TokNext == TokenizeQuery

SpecTok == TokInit /\ [][TokNext]_vars

\* --------------------------------------------- queries against a built index
\* A document with more keywords than either list holds: nine words longer than 2
\* characters with counts 3, 3, 2, 2, 2, 1, 1, 1, 1 (equal counts at both cut-offs).
KwWord(i) == <<"w", Digits[i + 1], "x">>

KwCounts == <<3, 3, 2, 2, 2, 1, 1, 1, 1>>

RECURSIVE Repeat(_, _)
Repeat(w, n) == IF n = 0 THEN <<>> ELSE w \o <<" ">> \o Repeat(w, n - 1)

RECURSIVE KwTextFrom(_)
KwTextFrom(i) ==
    IF i > Len(KwCounts) THEN <<>>
    ELSE Repeat(KwWord(i), KwCounts[i]) \o KwTextFrom(i + 1)

KwText == <<"W", "1", "X", ",">> \o KwTextFrom(2) \o Repeat(KwWord(1), 2)

\* A document whose words are all shorter than 3 characters, one of them repeated.
ShortText == <<"a", "b", " ", "a", "-", "A", "B">>

\* The vocabulary of the two documents, most frequent among the documents first.
KwTerms == [i \in DOMAIN KwCounts |-> KwWord(i)] \o <<<<"a", "b">>, <<"a">>>>

\* The index index_dir writes for the two documents.
KwIndex ==
    Index(<<DocOf(1, KwText), DocOf(2, ShortText)>>, KwTerms,
          <<normalize(encode(tokenize(KwText), KwTerms)),
            normalize(encode(tokenize(ShortText), KwTerms))>>)

QueryW1 == KwWord(1) \o <<" ", "a", "b", " ", "a">>
QueryListW == LIST \o <<" ">> \o KwWord(9)

KwQueries == {QueryW1, QueryListW}

KwInit ==
    /\ dir = <<>>
    /\ index_path \in {OwnPath, DebugPath}
    /\ SumIdle
    /\ index_file = Stored(KwIndex)
    /\ IndexIdle
    /\ ires = "none"
    /\ QueryIdle

KwNext ==
    \/ \E qq \in KwQueries : QueryLoad(qq, 1)
    \/ QuerySelect
    \/ QueryContext
    \/ QueryRun
    \/ QueryFallback
    \/ QueryReturn

SpecKw == KwInit /\ [][KwNext]_vars

\* ------------------------------------- nlp::summarization: the extractive summary
\* SENTENCE_PATTERN = [^.!?]+[.!?]+
SentenceEnd == {".", "!", "?"}

WhiteSpace == {" ", "\n", "\t"}

STOP_WORDS ==
    {<<"a">>, <<"a", "n">>, <<"a", "n", "d">>, <<"a", "r", "e">>, <<"a", "s">>, <<"a", "t">>,
     <<"b", "e">>, <<"b", "y">>, <<"f", "o", "r">>, <<"f", "r", "o", "m">>, <<"h", "a", "s">>,
     <<"h", "e">>, <<"i", "n">>, <<"i", "s">>, <<"i", "t">>, <<"i", "t", "s">>, <<"o", "f">>,
     <<"o", "n">>, <<"t", "h", "a", "t">>, <<"t", "h", "e">>, <<"t", "o">>, <<"w", "a", "s">>,
     <<"w", "i", "l", "l">>, <<"w", "i", "t", "h">>, <<"t", "h", "i", "s">>, <<"b", "u", "t">>,
     <<"t", "h", "e", "y">>, <<"h", "a", "v", "e">>, <<"h", "a", "d">>, <<"w", "h", "a", "t">>,
     <<"w", "h", "e", "n">>, <<"w", "h", "e", "r", "e">>, <<"w", "h", "o">>,
     <<"w", "h", "i", "c", "h">>, <<"w", "h", "y">>, <<"h", "o", "w">>}

\* The literal returned for a text without sentences, kept as one element.
NO_CONTENT == <<"(No content to summarize)">>

Max(a, b) == IF a >= b THEN a ELSE b

\* The numbers of S in ascending order.
Ascending(S) ==
    [n \in 1..Cardinality(S) |-> CHOOSE i \in S : Cardinality({j \in S : j < i}) = n - 1]

\* str::trim
trim(s) ==
    LET keep == {i \in DOMAIN s : s[i] \notin WhiteSpace}
    IN  IF keep = {} THEN <<>>
        ELSE SubSeq(s, CHOOSE i \in keep : \A j \in keep : i <= j,
                       CHOOSE i \in keep : \A j \in keep : j <= i)

\* SENTENCE_PATTERN.find_iter(text): a match starts at the first character of a
\* maximal run of characters other than . ! ? that is followed by one of them,
\* and runs to the end of the run of . ! ? that follows.
sentence_matches(t) ==
    LET ends == {i \in DOMAIN t : t[i] \in SentenceEnd}
        starts == {i \in DOMAIN t \ ends : /\ (i = 1 \/ i - 1 \in ends)
                                          /\ \E j \in ends : j > i}
        first_end(i) == CHOOSE j \in ends : j > i /\ \A m \in ends : m > i => j <= m
        last_end(i) == CHOOSE j \in ends :
                           /\ j >= first_end(i)
                           /\ \A m \in first_end(i)..j : m \in ends
                           /\ j + 1 \notin ends
        order == Ascending(starts)
    IN  [n \in DOMAIN order |-> SubSeq(t, order[n], last_end(order[n]))]

\* find_iter(text).map(|m| m.as_str().trim()).filter(|s| !s.is_empty()).collect()
extract_sentences(t) ==
    LET nonempty(s) == s # <<>>
        ms == sentence_matches(t)
    IN  SelectSeq([n \in DOMAIN ms |-> trim(ms[n])], nonempty)

\* WORD_PATTERN.find_iter(sentence), each word lowercased; WORD_PATTERN is WORD_RE
words(sentence) == tokenize(sentence)

\* word_freq: occurrences of every word that is no stop word and longer than 2
\* characters, then scaled so that the highest frequency is 100.
word_freq(sents) ==
    LET ws == [i \in DOMAIN sents |-> words(sents[i])]
        counted == {w \in UNION {Range(ws[i]) : i \in DOMAIN ws} :
                       w \notin STOP_WORDS /\ Len(w) > 2}
        freq == [w \in counted |-> SumSeq([i \in DOMAIN ws |-> Count(ws[i], w)])]
        max_freq == IF counted = {} THEN 1
                    ELSE CHOOSE m \in Range(freq) : \A c \in Range(freq) : c <= m
    IN  [w \in counted |-> (freq[w] * 100) \div max_freq]

\* The score of sentence i (counted from 1): the mean frequency of its words,
\* times 1.5 and truncated for the first sentence.
sentence_score(i, sentence, freq) ==
    LET ws == words(sentence)
        total == SumSeq([j \in DOMAIN ws |-> IF ws[j] \in DOMAIN freq THEN freq[ws[j]] ELSE 0])
        mean == IF ws = <<>> THEN total ELSE total \div Len(ws)
    IN  IF i = 1 THEN (mean * 3) \div 2 ELSE mean

\* Mutant of num_summary_sentences: 30% of the sentences, without the lower limit.
num_summary_sentences_unclamped(n) == Min((n * 30) \div 100, 5)

\* (sentences.len() * 30 / 100).max(2).min(5)
num_summary_sentences(n) == Min(Max((n * 30) \div 100, 2), 5)

\* sentence_scores.sort_by(descending score), take(num_summary_sentences),
\* selected_indices.sort()
select_sentences(sents) ==
    LET freq == word_freq(sents)
        score == [i \in DOMAIN sents |-> sentence_score(i, sents[i], freq)]
        ranked == sort_by_desc([i \in DOMAIN sents |-> i], score)
    IN  Ascending(Range(Take(ranked, num_summary_sentences(Len(sents)))))

RECURSIVE join_space(_)
\* summary.join(" ")
join_space(ss) ==
    IF ss = <<>> THEN <<>>
    ELSE IF Len(ss) = 1 THEN Head(ss)
    ELSE Head(ss) \o <<" ">> \o join_space(Tail(ss))

\* Sentences of the inputs: content words, a stop word and leading blanks, two
\* end marks, and stop words and short words only.
SumPieces ==
    <<<<"C", "a", "t", " ", "s", "a", "t", ".">>,
      <<" ", " ", "t", "h", "e", " ", "c", "a", "t", " ", "n", "a", "p", "s", "!">>,
      <<" ", "D", "o", "g", "s", " ", "b", "a", "r", "k", "?", "!">>,
      <<"\n", "I", "t", " ", "i", "s", " ", "s", "o", ".">>>>

\* What follows the last sentence: nothing, or words without an end mark.
SumTails == {<<>>, <<" ", "t", "h", "e", " ", "e", "n", "d", " ">>}

MaxSentences == 21

RECURSIVE SumTextFrom(_, _)
SumTextFrom(n, shift) ==
    IF n = 0 THEN <<>>
    ELSE SumTextFrom(n - 1, shift) \o SumPieces[((n + shift) % Len(SumPieces)) + 1]

SumTexts ==
    {SumTextFrom(n, shift) \o tail :
        n \in 0..MaxSentences, shift \in 0..(Len(SumPieces) - 1), tail \in SumTails}

SumInit ==
    /\ dir = <<>>
    /\ index_path = OwnPath
    /\ index_file = Absent
    /\ IndexIdle
    /\ ires = "none"
    /\ QueryIdle
    /\ spc = "start"
    /\ sum_text \in SumTexts
    /\ sentences = <<>> /\ selected_indices = <<>> /\ summary = <<>>

\* The sentences of the text, and the two early returns.
SumExtract ==
    /\ spc = "start"
    /\ sentences' = extract_sentences(sum_text)
    /\ IF sentences' = <<>>
       THEN summary' = NO_CONTENT /\ spc' = "done"
       ELSE IF Len(sentences') <= 3
            THEN summary' = sum_text /\ spc' = "done"
            ELSE summary' = summary /\ spc' = "score"
    /\ UNCHANGED <<dir, index_path, index_file, ivars, qvars, sum_text, selected_indices>>

\* Scoring, selection and the joined summary.
SumSelect ==
    /\ spc = "score"
    /\ selected_indices' = select_sentences(sentences)
    /\ summary' = join_space([j \in DOMAIN selected_indices' |-> sentences[selected_indices'[j]]])
    /\ spc' = "done"
    /\ UNCHANGED <<dir, index_path, index_file, ivars, qvars, sum_text, sentences>>

SumNext == SumExtract \/ SumSelect

SpecSum == SumInit /\ [][SumNext]_vars

\* ----------------------------------------------- index_dir, run again and again
\* Two files of the same name, one in the directory and one in a subdirectory.
SameNames ==
    (MkPath(0, 1, "txt") :> Readable(TextAB)) @@ (MkPath(1, 1, "txt") :> Readable(TextCA))

\* Two files of different names in the directory.
OtherNames ==
    (MkPath(0, 1, "txt") :> Readable(TextAB)) @@ (MkPath(0, 2, "md") :> Readable(TextBAA))

AgainDirs == {SameNames, OtherNames}

AgainInit ==
    /\ dir \in AgainDirs
    /\ index_path \in {OwnPath, InsidePath}
    /\ SumIdle
    /\ index_file = Absent
    /\ IndexIdle
    /\ ires = "none"
    /\ QueryIdle

AgainNext ==
    \/ IndexStart
    \/ IndexRead
    \/ IndexDf
    \/ IndexSort
    \/ IndexEncode
    \/ IndexNorm
    \/ IndexWrite

SpecAgain == AgainInit /\ [][AgainNext]_vars

\* ================================================================== claims
\* The allow-listed regular files of the directory, stated from the list of extensions.
AllowListed ==
    {p \in DOMAIN dir : dir[p].kind = "file" /\ p.ext \in {"txt", "md", "csv", "json", "pdf"}}

\* index_dir has computed its documents.
HasDocs == ipc \in {"df", "sort", "encode", "norm", "write"}

\* index_dir has computed the document frequencies.
HasDf == ipc \in {"sort", "encode", "norm", "write"}

\* index_dir has computed the vocabulary.
HasTerms == ipc \in {"encode", "norm", "write"}

\* The last index_dir invocation succeeded: the index file is the one it wrote.
Built == ires = "Ok" /\ index_file.state = "index"

\* Documents whose tokens contain the term.
DocsWith(t) == {i \in DOMAIN docs_tokens : \E j \in DOMAIN docs_tokens[i] : docs_tokens[i][j] = t}

\* C1: every index written by index_dir has as many vectors as documents, and every
\* vector has one component per vocabulary term.
C1_IndexShape ==
    ires = "Ok" =>
        /\ index_file.state = "index"
        /\ Len(index_file.idx.vectors) = Len(index_file.idx.docs)
        /\ \A i \in DOMAIN index_file.idx.vectors :
              Len(index_file.idx.vectors[i]) = Len(index_file.idx.terms)

\* C1 witness: a written index of two documents over at least two terms.
C1_Witness ==
    /\ Built
    /\ Len(index_file.idx.docs) = 2
    /\ Len(index_file.idx.terms) >= 2
    /\ \E i \in DOMAIN index_file.idx.docs : Len(tokenize(index_file.idx.docs[i].text)) = 3

\* The tokens of all documents, in document order.
RECURSIVE Flatten(_)
Flatten(ss) == IF ss = <<>> THEN <<>> ELSE Head(ss) \o Flatten(Tail(ss))

\* Position at which a term is first seen while scanning the documents in order.
FirstSeen(t) ==
    LET all == Flatten(docs_tokens)
    IN  CHOOSE i \in DOMAIN all : all[i] = t /\ \A j \in 1..(i - 1) : all[j] # t

\* C2: the vocabulary is a sequence of unique terms in descending document frequency,
\* terms of equal frequency in the order in which they were first seen.
C2_VocabularyOrder ==
    HasTerms =>
        /\ \A i, j \in DOMAIN terms : i # j => terms[i] # terms[j]
        /\ \A i, j \in DOMAIN terms : i < j =>
              \/ df[terms[i]] > df[terms[j]]
              \/ df[terms[i]] = df[terms[j]] /\ FirstSeen(terms[i]) < FirstSeen(terms[j])

\* C3: a build of an unchanged directory over the index a previous build wrote leaves
\* the index file as it was (same vocabulary order, same vectors).
C3_RebuildIdentical ==
    [][(ipc = "write" /\ Built /\ ires' = "Ok") => index_file' = index_file]_vars

\* C4: the document frequency of a term is the number of documents whose tokens contain
\* it, and the vocabulary is exactly the set of terms of frequency >= 1.
C4_DocumentFrequency ==
    /\ HasDf =>
          /\ DOMAIN df = UNION {Range(docs_tokens[i]) : i \in DOMAIN docs_tokens}
          /\ \A t \in DOMAIN df : df[t] = Cardinality(DocsWith(t))
          /\ \A i \in DOMAIN docs : docs_tokens[i] = tokenize(docs[i].text)
    /\ HasTerms =>
          Range(terms) = {t \in UNION {Range(docs_tokens[i]) : i \in DOMAIN docs_tokens} :
                              Cardinality(DocsWith(t)) >= 1}

\* C4 witness: a term that occurs twice inside one document and in two documents.
C4_Witness ==
    /\ HasTerms
    /\ \E t \in DOMAIN df :
          /\ df[t] = 2
          /\ \E i \in DOMAIN docs_tokens : Count(docs_tokens[i], t) = 2

\* The query text holds the word w at some position, letter case ignored.
HoldsWord(qq, w) ==
    \E i \in 1..(Len(qq) - Len(w) + 1) : \A j \in 1..Len(w) : ToLowerChar(qq[i + j - 1]) = w[j]

\* The text holds one of the trigger words.
HasTrigger(qq) ==
    \E w \in {SUMMARIZE, LIST, ALL, DOCUMENTS} : HoldsWord(qq, w)

\* Number of tokens: the positions at which a run of word characters starts.
TokenCount(qq) ==
    Cardinality({i \in DOMAIN qq : WORD_RE(qq[i]) /\ (i = 1 \/ ~WORD_RE(qq[i - 1]))})

\* The query operation has classified the query: it does so only for a loaded index
\* with a non-empty vocabulary and a non-empty vector list.
Classified ==
    /\ qpc \in {"selected", "run", "fallback", "done"}
    /\ idx.terms # <<>> /\ idx.vectors # <<>>

\* C5: whenever a query is classified, it is general if and only if its text holds a
\* trigger word (case ignored) or it has fewer than 3 tokens.
C5_Classification ==
    Classified => (is_general_query <=> (HasTrigger(q) \/ TokenCount(q) < 3))

\* C5 witness: the scenario query of 4 tokens and no trigger word is specific.
C5_Witness ==
    /\ Classified
    /\ q = QueryKubernetes
    /\ TokenCount(q) = 4
    /\ ~is_general_query

\* The context phase is over (the prompt is final).
Prompted == qpc \in {"run", "fallback", "done"} /\ qres # "Panic"

\* The documents written into the prompt context, in order.
ContextDocs == [j \in DOMAIN context |-> context[j].doc]

\* The first n positions of the index.
FirstDocs(n) == [i \in 1..n |-> i]

\* C6 as stated: for a general query against an index of N >= 1 documents the prompt
\* holds the first min(N, 10) documents in index order.
C6_Original ==
    (/\ Prompted
     /\ index_file.state = "index"
     /\ Len(idx.docs) >= 1
     /\ HasTrigger(q) \/ TokenCount(q) < 3)
    => ContextDocs = FirstDocs(Min(Len(idx.docs), 10))

\* C6 amended: for a general query against an index whose vocabulary and vector list
\* are both non-empty, the prompt holds the first min(N, 10) documents in index
\* order, whatever k and the similarity scores are.
C6_GeneralSelection ==
    (/\ Prompted
     /\ index_file.state = "index"
     /\ idx.terms # <<>> /\ idx.vectors # <<>>
     /\ HasTrigger(q) \/ TokenCount(q) < 3)
    => ContextDocs = FirstDocs(Min(Len(idx.docs), 10))

\* C6 witness: a general query with k = 1 on 11 documents; 10 are in the prompt,
\* though the first document does not score best.
C6_Witness ==
    /\ Prompted
    /\ is_general_query
    /\ k = 1
    /\ Len(idx.docs) > 10
    /\ Len(context) = 10
    /\ \E i \in DOMAIN idx.vectors : sims(q, idx)[i] > sims(q, idx)[1]

\* Similarity of the document at position i of the loaded index.
Score(i) == cosine_sim(query_vector(q, idx.terms), idx.vectors[i])

\* The ranking properties of the prompt context: distinct documents, in descending
\* similarity order, and no document left out scores strictly higher than one included.
Ranked ==
    /\ \A i, j \in DOMAIN context : i # j => context[i].doc # context[j].doc
    /\ \A j \in DOMAIN context : context[j].doc \in DOMAIN idx.docs
    /\ \A i, j \in DOMAIN context : i < j => Score(context[i].doc) >= Score(context[j].doc)
    /\ \A d \in DOMAIN idx.docs \ Range(ContextDocs) :
          \A j \in DOMAIN context : Score(d) <= Score(context[j].doc)

Loaded == qpc \in {"loaded", "selected", "run", "fallback", "done"} /\ index_file.state = "index"

\* C8: querying an index with zero documents or an empty vocabulary selects and
\* describes no document and ends without error or panic, the fallback included.
C8_EmptyIndex ==
    (/\ Loaded
     /\ idx.docs = <<>> \/ idx.terms = <<>>)
    => /\ selected_docs = <<>>
       /\ context = <<>>
       /\ printed.descriptions = <<>>
       /\ qres \in {"none", "Ok"}

\* The shape invariants of an Index.
WellShaped(ix) ==
    /\ Len(ix.vectors) = Len(ix.docs)
    /\ \A i \in DOMAIN ix.vectors : Len(ix.vectors[i]) = Len(ix.terms)

\* C9: a query that loads an index whose shape invariants are violated returns an
\* error: it does not go on to score or select, and it does not panic.
C9_MalformedRejected ==
    (Loaded /\ ~WellShaped(idx)) => (qpc = "done" /\ qres = "Err")

\* C10: a file whose read fails becomes a document with an empty text; the documents
\* are the allow-listed files of the directory, one each; index_dir fails only on its
\* output file.
C10_ReadFailure ==
    /\ ires \in {"none", "Ok", "ErrCreate", "ErrWrite"}
    /\ HasDocs =>
          /\ Len(docs) = Cardinality(AllowListed)
          /\ {docs[i].path : i \in DOMAIN docs} = AllowListed
          /\ \A i \in DOMAIN docs : ~dir[docs[i].path].ok => docs[i].text = <<>>
    /\ ires = "Ok" =>
          /\ index_file.state = "index"
          /\ Len(index_file.idx.docs) = Cardinality(AllowListed)
          /\ \A p \in AllowListed : ~dir[p].ok =>
                \E i \in DOMAIN index_file.idx.docs :
                    /\ index_file.idx.docs[i].path = p
                    /\ index_file.idx.docs[i].text = <<>>

\* C10 witness: a build over a directory with an unreadable and a readable allow-listed
\* file (and a file that is not allow-listed) succeeded and wrote two documents.
C10_Witness ==
    /\ Built
    /\ \E p, r \in AllowListed : ~dir[p].ok /\ dir[r].ok
    /\ DOMAIN dir # AllowListed
    /\ Len(index_file.idx.docs) = 2
    /\ \E i \in DOMAIN index_file.idx.docs :
          /\ ~dir[index_file.idx.docs[i].path].ok
          /\ index_file.idx.docs[i].text = <<>>

C12_NoIndexRawPrompt ==
    (index_file.state = "absent" /\ qpc # "idle") =>
        /\ prompt = [kind |-> "raw", context |-> <<>>, q |-> q, text |-> q]
        /\ qpc \in {"run", "fallback", "done"}
        /\ (qpc = "run" => ollama_runs = 0)
        /\ (qpc \in {"fallback", "done"} => ollama_runs = 1)
        /\ qres \in {"none", "Ok"}

\* A query with upper-case letters has returned after one generation attempt, no index file.
C12_Witness ==
    /\ index_file.state = "absent" /\ qpc = "done"
    /\ q = QueryList /\ ollama_runs = 1 /\ qres = "Ok"

\* The documents the fallback has described, in order.
Described == [j \in DOMAIN printed.descriptions |-> printed.descriptions[j].doc]

\* C13: when the generation process cannot be started or exits non-zero, the query
\* returns success and has printed one keyword-derived description for each document
\* that was selected for the query: the capped document set for a general query, the
\* top k for a specific one.  Stated for a well-shaped index with documents and a
\* vocabulary, where the selection is defined by C6 and C7.
C13_FallbackDescribesSelection ==
    (/\ qpc = "done" /\ ollama_runs = 1 /\ ~printed.generated
     /\ index_file.state = "index"
     /\ WellShaped(idx) /\ idx.terms # <<>> /\ idx.docs # <<>>)
    => /\ qres = "Ok"
       /\ Described = IF is_general_query
                      THEN FirstDocs(Min(Len(idx.docs), MAX_CONTEXT_DOCS))
                      ELSE selected_docs

\* C14: within one invocation of query_with_ollama the generation process is started
\* at most once: never before the prompt is ready, and once it has failed it is not
\* started again.
C14_AtMostOneRun ==
    /\ ollama_runs <= 1
    /\ (qpc \in {"idle", "loaded", "selected", "run"} => ollama_runs = 0)
    /\ (qpc = "fallback" => ollama_runs = 1)

\* The generation failed, the fallback has printed its descriptions, one run in all.
C14_Witness ==
    /\ qpc = "done" /\ ollama_runs = 1
    /\ ~printed.generated /\ printed.descriptions # <<>>

\* C15: the documents of index_dir are exactly the regular files of the source
\* directory, at any depth, whose extension is one of txt, md, csv, json, pdf, one
\* document per file; an entry with another extension or none, or a directory, never
\* becomes a document, and the scan makes no invocation fail.
C15_DocumentsAreAllowedFiles ==
    /\ HasDocs =>
          /\ {docs[i].path : i \in DOMAIN docs} = AllowListed
          /\ Len(docs) = Cardinality(AllowListed)
    /\ Built =>
          /\ {index_file.idx.docs[i].path : i \in DOMAIN index_file.idx.docs} = AllowListed
          /\ \A i \in DOMAIN index_file.idx.docs :
                LET p == index_file.idx.docs[i].path
                IN  dir[p].kind = "file" /\ p.ext \notin {"", "TXT", "bin"}
    /\ ires \in {"none", "Ok", "ErrCreate", "ErrWrite"}

\* An index was built from a tree holding nested allow-listed files next to a file
\* without extension, one with an upper-case extension and a directory named like a file.
C15_Witness ==
    /\ Built /\ ipc = "idle"
    /\ \E p, r, d \in DOMAIN dir :
          /\ p.ext = "" /\ r.ext = "TXT" /\ dir[d].kind = "dir" /\ d.ext = "md"
    /\ Len(index_file.idx.docs) = 3
    /\ \E i \in DOMAIN index_file.idx.docs : index_file.idx.docs[i].path.dir = 2

\* C16: under every scheduling of the parallel workers, every result of the read
\* pass sits at the position of its file, the documents are in ascending path order,
\* and vector i of the built index is the normalized encoding of document i's text.
C16_OrderUnderScheduling ==
    /\ \A i \in DOMAIN docs : i \in DOMAIN files /\ docs[i].path = files[i]
    /\ (ipc \in {"df", "sort", "encode", "encoding", "norm", "norming", "write"} =>
          /\ DOMAIN docs = DOMAIN files
          /\ \A i, j \in DOMAIN docs : i < j => PathLess(docs[i].path, docs[j].path))
    /\ (ipc = "write" =>
          /\ DOMAIN vectors = DOMAIN docs
          /\ \A i \in DOMAIN docs :
                /\ vectors[i] = normalize(encode(tokenize(docs[i].text), terms))
                /\ \A j \in DOMAIN terms :
                      vectors[i][j] > 0 <=> terms[j] \in Range(tokenize(docs[i].text)))

\* A worker has encoded the second document while the first, with another text, is
\* still pending.
C16_Witness ==
    /\ ipc = "encoding" /\ pending = {1}
    /\ DOMAIN vectors = {2}
    /\ docs[1].text # docs[2].text /\ docs[1].text # <<>> /\ docs[2].text # <<>>

\* The vocabulary holds, once each, every token of every file's document.
VocabComplete ==
    /\ DOMAIN docs = DOMAIN files /\ DOMAIN docs_tokens = DOMAIN docs
    /\ Range(terms) = UNION {Range(tokenize(docs[i].text)) : i \in DOMAIN docs}
    /\ Len(terms) = Cardinality(Range(terms))

\* C17: within one index_dir invocation every step that encodes or normalizes a
\* vector starts from a vocabulary completed from all documents and leaves it as it
\* is, and the vocabulary changes only while no vector exists.
C17_VocabularyBeforeEncoding ==
    [][/\ (vectors' # vectors /\ ipc # "write" => VocabComplete /\ terms' = terms)
       /\ (terms' # terms /\ ipc # "write" => vectors = <<>> /\ vectors' = <<>>)]_vars

\* The second of two documents is encoded, the first is pending, and the vocabulary
\* holds a term that only the pending document has.
C17_Witness ==
    /\ ipc = "encoding" /\ pending = {1} /\ DOMAIN vectors = {2}
    /\ \E j \in DOMAIN terms :
          /\ terms[j] \in Range(docs_tokens[1])
          /\ terms[j] \notin Range(docs_tokens[2])

RunStarts == {i \in DOMAIN q : WORD_RE(q[i]) /\ (i = 1 \/ ~WORD_RE(q[i - 1]))}

\* C19: tokenize returns one token per maximal run of word characters; every token
\* is non-empty and made of lower-case letters, digits and apostrophes only, the
\* apostrophe is never the first or the last character of a token, and the empty
\* string gives the empty sequence.
C19_TokenizeContract ==
    qpc = "tokenized" =>
        /\ Len(q_toks) = Cardinality(RunStarts)
        /\ \A i \in DOMAIN q_toks :
              /\ q_toks[i] # <<>>
              /\ \A j \in DOMAIN q_toks[i] :
                    q_toks[i][j] \in Range(LowerAlpha) \cup DigitChars \cup {"'"}
              /\ q_toks[i][1] # "'"
              /\ q_toks[i][Len(q_toks[i])] # "'"
        /\ (q = <<>> => q_toks = <<>>)

\* Occurrences of each vocabulary term among the tokens of the query.
Occurrences == [i \in DOMAIN idx.terms |-> Count(q_toks, idx.terms[i])]

Abs(x) == IF x < 0 THEN 0 - x ELSE x

\* C20: the query vector has one component per vocabulary term, proportional (up to
\* rounding of each component) to the number of occurrences of that term among the
\* query's tokens; tokens that are not in the vocabulary change no component and
\* cause no error, so a query without any vocabulary token has the all-zero vector.
C20_QueryVector ==
    Classified =>
        LET occ == Occurrences
        IN  /\ Len(q_vec) = Len(idx.terms)
            /\ \A i \in DOMAIN idx.terms : q_vec[i] = 0 <=> occ[i] = 0
            /\ \A i, j \in DOMAIN idx.terms :
                  Abs(q_vec[i] * occ[j] - q_vec[j] * occ[i])
                      <= IF occ[i] > occ[j] THEN occ[i] ELSE occ[j]
            /\ ((\A t \in Range(q_toks) : t \notin Range(idx.terms)) =>
                   \A i \in DOMAIN q_vec : q_vec[i] = 0)
            /\ (qpc = "selected" => qres = "none")

\* A query with a token outside the vocabulary and one inside it has been vectorized:
\* one component is positive and another is zero.
C20_Witness ==
    /\ Classified /\ q = QueryCXA
    /\ \E t \in Range(q_toks) : t \notin Range(idx.terms)
    /\ \E i, j \in DOMAIN q_vec : q_vec[i] > 0 /\ q_vec[j] = 0

\* Sum of the squares of the components of v.
SumSquares(v) == SumSeq([i \in DOMAIN v |-> v[i] * v[i]])

C22_NoPartialRead ==
    (ipc = "writing" /\ qpc = "done" /\ ollama_runs = 0) => qres # "Err"

\* C28: the documents described by the fallback are documents of the index that the
\* invocation loaded before it started the generation process: each description
\* names a position, the path and a keyword list of a document of that index.
C28_FallbackUsesLoadedIndex ==
    qpc = "done" =>
        \A j \in DOMAIN printed.descriptions :
            LET d == printed.descriptions[j]
            IN  /\ d.doc \in DOMAIN idx.docs
                /\ d.path = idx.docs[d.doc].path
                /\ d.kw \in keywords(idx.docs[d.doc].text, FALLBACK_KEYWORDS)

\* The part of an assembled prompt that stands for the documents: what lies between
\* the opening element and the closing element of its format.
DocumentPart ==
    LET close == CHOOSE i \in DOMAIN prompt.text :
                     prompt.text[i] \in {"\nQuestion: ",
                                        "\nEnd of documents.\n\nProvide the summaries now."}
    IN  SubSeq(prompt.text, 2, close - 1)

\* C23: the prompt handed to the generation process is built from the full text of
\* the selected documents when the query is specific, and from each selected
\* document's file name and top keywords when the query is general.
C23_PromptFromTextOrKeywords ==
    (Prompted /\ prompt.kind \in {"specific", "general"}) =>
        \A j \in DOMAIN context :
            IF prompt.kind = "specific"
            THEN contains(DocumentPart, idx.docs[context[j].doc].text)
            ELSE contains(DocumentPart,
                          <<"Filename: ">> \o name_text(context[j].fname)
                              \o <<"\nKeywords: ">> \o keyword_text(context[j].kw))

\* C24: an index is read-only after the build that created it: while a query runs
\* (whatever its kind and whether the generation succeeds or the fallback runs), the
\* index file still holds the index the query loaded from it, and the loaded
\* documents, vocabulary and vectors are still those of the file.
C24_QueryLeavesIndex ==
    (qpc # "idle" /\ idx # Index(<<>>, <<>>, <<>>)) => index_file = Stored(idx)

\* The keyword list kw, written out as shown, is a keyword list of document i with
\* at most cap entries.
KeywordList(i, kw, cap, shown) ==
    LET toks == tokenize(idx.docs[i].text)
        n(t) == Cardinality({j \in DOMAIN toks : toks[j] = t})
        long == {t \in Range(toks) : Len(t) > 2}
    IN  /\ \A a \in DOMAIN kw : kw[a] \in long
        /\ Len(kw) <= cap
        /\ \A a, b \in DOMAIN kw : a < b => n(kw[a]) >= n(kw[b])
        /\ \A t \in long \ Range(kw) : \A a \in DOMAIN kw : n(t) <= n(kw[a])
        /\ long # {} => kw # <<>>
        /\ ("(no keywords)" \in Range(shown)) <=> (long = {})

\* C26: the keyword list derived for a document holds only tokens of that document
\* longer than 2 characters, at most 8 of them in the prompt context and at most 6 in
\* the fallback summary, in descending order of occurrence count with no omitted
\* token occurring more often than a listed one, and the text "(no keywords)" stands
\* in its place exactly when the document has no such token.
C26_KeywordLists ==
    /\ \A j \in DOMAIN context :
          KeywordList(context[j].doc, context[j].kw, 8, context[j].line)
    /\ \A j \in DOMAIN printed.descriptions :
          KeywordList(printed.descriptions[j].doc, printed.descriptions[j].kw, 6,
                      printed.descriptions[j].summary)

\* A general query put a full list of 8 keywords and a "(no keywords)" line into the
\* prompt, and the fallback printed a summary with a full list of 6 keywords.
C26_Witness ==
    /\ qpc = "done"
    /\ \E j \in DOMAIN context : Len(context[j].kw) = 8
    /\ \E j \in DOMAIN context : context[j].kw = <<>>
    /\ \E j \in DOMAIN printed.descriptions : Len(printed.descriptions[j].kw) = 6

\* C25: in every document vector of a built index the component at a vocabulary
\* position is non-zero exactly when the term at that position occurs among the
\* document's tokens, and every token of every document is a vocabulary term.
C25_NonZeroIffOccurs ==
    ipc = "write" =>
        \A i \in DOMAIN docs :
            /\ i \in DOMAIN vectors /\ Len(vectors[i]) = Len(terms)
            /\ \A j \in DOMAIN terms :
                  (vectors[i][j] # 0) <=> (\E n \in DOMAIN docs_tokens[i] :
                                              docs_tokens[i][n] = terms[j])
            /\ \A n \in DOMAIN docs_tokens[i] :
                  \E j \in DOMAIN terms : terms[j] = docs_tokens[i][n]

\* A built index of two documents, each with a term the other does not have.
C25_Witness ==
    /\ ipc = "write" /\ Len(docs) = 2
    /\ \E j, m \in DOMAIN terms :
          /\ vectors[1][j] # 0 /\ vectors[2][j] = 0
          /\ vectors[1][m] = 0 /\ vectors[2][m] # 0

\* The text holds a sentence: an end mark that follows a character that is none.
HasSentence ==
    \E i \in DOMAIN sum_text :
        /\ i > 1
        /\ sum_text[i] \in {".", "!", "?"}
        /\ sum_text[i - 1] \notin {".", "!", "?"}

\* C27: summarize_text_content returns "(No content to summarize)" when the text has
\* no sentence, the text itself when it has at most 3 sentences, and otherwise 30% of
\* the sentences, at least 2 and at most 5: each a sentence of the text as it stands
\* there, in the order of the text, none twice, joined by a blank.
C27_SummaryShape ==
    spc = "done" =>
        /\ (sentences = <<>>) <=> ~HasSentence
        /\ \A i \in DOMAIN sentences : contains(sum_text, sentences[i])
        /\ IF sentences = <<>> THEN summary = <<"(No content to summarize)">>
           ELSE IF Len(sentences) <= 3 THEN summary = sum_text
           ELSE LET n == Len(selected_indices)
                    share == (Len(sentences) * 30) \div 100
                IN  /\ n \in 2..5
                    /\ n = IF share < 2 THEN 2 ELSE IF share > 5 THEN 5 ELSE share
                    /\ \A j \in 1..n : selected_indices[j] \in DOMAIN sentences
                    /\ \A a, b \in 1..n : a < b => selected_indices[a] < selected_indices[b]
                    /\ summary = join_space([j \in 1..n |-> sentences[selected_indices[j]]])

\* A text of at least 20 sentences was summarized by 5 of them, not the first five.
C27_Witness ==
    /\ spc = "done"
    /\ Len(sentences) >= 20
    /\ Len(selected_indices) = 5
    /\ selected_indices[5] > 5

\* C29: a build run again with the same source directory and the same output path
\* gives the document list of the run before, also when the output path is a .json
\* file inside the source directory: the index file written before is no document.
C29_SameDocumentsAgain ==
    (ipc = "write" /\ index_file.state = "index") =>
        /\ [i \in DOMAIN docs |-> docs[i].path]
              = [i \in DOMAIN index_file.idx.docs |-> index_file.idx.docs[i].path]
        /\ \A i \in DOMAIN docs : docs[i].path # InsideFile

\* C30: the documents of a built index have pairwise distinct ids, also when files
\* in different subdirectories have the same name.
C30_DistinctIds ==
    ipc = "write" => \A i, j \in DOMAIN docs : i # j => docs[i].id # docs[j].id
====
